---- MODULE Spec2Model ----
(***************************************************************************)
(* TelegramBroadcastPanel: the user directory, the scheduled-message      *)
(* store, the delivery log, the scheduler loop (scheduler.py) and the      *)
(* broadcast request handler (app.py), as one state machine.               *)
(*                                                                         *)
(* Two operating-system processes share the SQLite file: the Flask         *)
(* application, which serves broadcast requests, and the scheduler         *)
(* service, which runs check_schedule_and_send.  They interleave; the only *)
(* shared state is the tables.                                             *)
(*                                                                         *)
(* Abstractions.  message_text, media_url and media_type only select which *)
(* Bot method is awaited (scheduler.py 30-38, app.py 247-255); the method  *)
(* called is an input here: its outcome, one of SendResults.  A chat id is *)
(* an opaque string.  A store operation (execute + commit) either takes    *)
(* effect or raises sqlite3.OperationalError with no effect; the queries   *)
(* of a request handler return.  Form fields, tags and the JSON text of    *)
(* the tags column are sequences of characters, so that splitting,         *)
(* trimming, json.dumps, json.loads and LIKE are computed.                 *)
(***************************************************************************)
EXTENDS Naturals, Sequences, FiniteSets

\* ------------------------------------------------------------------ bounds
MaxMsgs == 2
MaxLen == 4
MaxTime == 1
MaxRestarts == 1
MaxBroadcasts == 1

\* ------------------------------------------------------------------ inputs
ChatIds == {"A", "B"}

\* The field target_ids of a broadcast form: blank, and ids with a repeated
\* one, separated by a comma and by a line break of the textarea, with
\* blanks and a trailing comma.
ExplicitInputs ==
    { << " " >>,
      << "A", " ", ",", "A", "\r", "\n", "B", ",", " " >> }

\* The characters of a field target_ids, and the fields of at most MaxLen
\* characters.
IdChars == {"A", "B", ",", "\r", "\n", " "}

TargetIdsInputs == UNION { [1..n -> IdChars] : n \in 0..MaxLen }

\* The field selected_tag: a tag as stored, in capitals, and a tag outside
\* ASCII.
SelectedTags ==
    { << "v", "i", "p" >>, << "V", "I", "P" >>, << "U+062E" >> }

\* The fields of a broadcast form that select its recipients.
TargetForms ==
    { [target_type |-> "all", selected_tag |-> <<>>, target_ids |-> <<>>] }
        \cup { [target_type |-> "tag", selected_tag |-> t, target_ids |-> <<>>] :
                 t \in SelectedTags }
        \cup { [target_type |-> "multiple", selected_tag |-> <<>>, target_ids |-> i] :
                 i \in ExplicitInputs }

\* The fields of an add-user form.
UserForms ==
    { [new_chat_id |-> << " ", "A" >>, new_username |-> << "A", "n", "n", " " >>,
       new_tags |-> << " ", "V", "I", "P", ",", " ", "n", "e", "w", "s", "," >>],
      [new_chat_id |-> << "B" >>, new_username |-> << "B", "o", "b" >>,
       new_tags |-> << "v", "i", "p" >>],
      [new_chat_id |-> << "B" >>, new_username |-> << " " >>,
       new_tags |-> << "U+062E" >>],
      [new_chat_id |-> << " " >>, new_username |-> << "A", "n", "n" >>,
       new_tags |-> << "v", "i", "p" >>] }

\* What awaiting the Bot method does: it returns, or raises a TelegramError
\* saying the user blocked the bot, or another TelegramError, or an exception
\* that is no TelegramError.
SendResults == {"Ok", "Blocked", "Rejected", "Error"}

\* str(e), as a sequence of words.
BlockedPhrase == <<"bot", "was", "blocked", "by", "the", "user">>

ErrorText(e) ==
    CASE e = "Blocked" -> <<"Forbidden:">> \o BlockedPhrase
      [] e = "Rejected" -> <<"Chat", "not", "found">>
      [] e = "Error" -> <<"Event", "loop", "is", "closed">>
      [] e = "RuntimeError" -> <<"Working", "outside", "of", "application", "context.">>
      [] e = "OperationalError" -> <<"database", "is", "locked">>
      [] OTHER -> <<>>

IsTelegramError(e) == e \in {"Blocked", "Rejected"}

\* phrase in text
Contains(text, phrase) ==
    \E i \in 1..(Len(text) + 1) :
        /\ i + Len(phrase) - 1 <= Len(text)
        /\ SubSeq(text, i, i + Len(phrase) - 1) = phrase

\* set(list)
SetOf(list) == { list[i] : i \in 1..Len(list) }

None == <<>>

\* ------------------------------------------------------------------ strings

\* A form field, a username, a tag and the JSON text of a column are
\* sequences of characters; a character is a one-character string, and
\* "U+062E" stands for the one character of that code point (a letter outside
\* ASCII).  A chat id is kept as a string (Str of its characters).

Whitespace == {" ", "\t", "\n", "\r"}

RECURSIVE lstrip(_)
lstrip(s) ==
    IF s # <<>> /\ Head(s) \in Whitespace THEN lstrip(Tail(s)) ELSE s

RECURSIVE rstrip(_)
rstrip(s) ==
    IF s # <<>> /\ s[Len(s)] \in Whitespace
    THEN rstrip(SubSeq(s, 1, Len(s) - 1)) ELSE s

\* s.strip()
strip(s) == rstrip(lstrip(s))

\* s.replace(old, new), old not empty: leftmost occurrences, not overlapping
RECURSIVE replace(_, _, _)
replace(s, old, new) ==
    IF Len(s) < Len(old) THEN s
    ELSE IF SubSeq(s, 1, Len(old)) = old
         THEN new \o replace(SubSeq(s, Len(old) + 1, Len(s)), old, new)
         ELSE << Head(s) >> \o replace(Tail(s), old, new)

\* s.split(sep), sep one character: the pieces between the separators, the
\* empty ones included
RECURSIVE split(_, _)
split(s, sep) ==
    IF \A i \in 1..Len(s) : s[i] # sep THEN << s >>
    ELSE LET i == CHOOSE k \in 1..Len(s) :
                      /\ s[k] = sep
                      /\ \A j \in 1..(k - 1) : s[j] # sep
         IN << SubSeq(s, 1, i - 1) >> \o split(SubSeq(s, i + 1, Len(s)), sep)

\* The characters of s as one string.
RECURSIVE Str(_)
Str(s) == IF s = <<>> THEN "" ELSE Head(s) \o Str(Tail(s))

\* c.lower() for one character; also the folding of SQLite's LIKE, which
\* ignores case for ASCII letters only.
lower_char(c) ==
    CASE c = "V" -> "v"
      [] c = "I" -> "i"
      [] c = "P" -> "p"
      [] OTHER -> c

\* s.lower()
lower(s) == [i \in 1..Len(s) |-> lower_char(s[i])]

\* [f(x) for x in list if x.strip()] of app.py 212 and 287: the pieces that
\* are not blank, each stripped.
StrippedNonBlank(pieces) ==
    LET kept == SelectSeq(pieces, LAMBDA p : strip(p) # <<>>)
    IN [i \in 1..Len(kept) |-> strip(kept[i])]

\* app.py 212: the ids of the textarea target_ids (already stripped as a
\* whole at line 197).
ids_list(text) ==
    LET pieces == StrippedNonBlank(
                      split(replace(text, << "\r", "\n" >>, << "," >>), ","))
    IN [i \in 1..Len(pieces) |-> Str(pieces[i])]

\* app.py 287: the tags of the field new_tags (already stripped as a whole).
new_tags_list(new_tags_str) ==
    LET pieces == StrippedNonBlank(split(new_tags_str, ","))
    IN [i \in 1..Len(pieces) |-> lower(pieces[i])]

\* json.dumps of one string: quotes and backslashes escaped, a character
\* outside ASCII written as \uXXXX (ensure_ascii).
RECURSIVE json_escape(_)
json_escape(s) ==
    IF s = <<>> THEN <<>>
    ELSE (CASE Head(s) = "\"" -> << "\\", "\"" >>
            [] Head(s) = "\\" -> << "\\", "\\" >>
            [] Head(s) = "U+062E" -> << "\\", "u", "0", "6", "2", "e" >>
            [] OTHER -> << Head(s) >>) \o json_escape(Tail(s))

\* json.dumps of a list of strings
RECURSIVE json_dumps_items(_)
json_dumps_items(list) ==
    IF list = <<>> THEN <<>>
    ELSE << "\"" >> \o json_escape(Head(list)) \o << "\"" >>
           \o (IF Len(list) > 1 THEN << ",", " " >> ELSE <<>>)
           \o json_dumps_items(Tail(list))

json_dumps(list) == << "[" >> \o json_dumps_items(list) \o << "]" >>

\* json.loads of the text of a list of strings: one string from just after
\* its opening quote, as [val, rest].
RECURSIVE json_read_string(_, _)
json_read_string(text, acc) ==
    IF Head(text) = "\"" THEN [val |-> acc, rest |-> Tail(text)]
    ELSE IF Head(text) = "\\" THEN
        IF text[2] = "u"
        THEN json_read_string(SubSeq(text, 7, Len(text)),
                              Append(acc,
                                     IF SubSeq(text, 3, 6) = << "0", "6", "2", "e" >>
                                     THEN "U+062E" ELSE "?"))
        ELSE json_read_string(SubSeq(text, 3, Len(text)), Append(acc, text[2]))
    ELSE json_read_string(Tail(text), Append(acc, Head(text)))

RECURSIVE json_loads_items(_)
json_loads_items(text) ==
    IF text = <<>> THEN <<>>
    ELSE IF Head(text) = "\""
         THEN LET r == json_read_string(Tail(text), <<>>)
              IN << r.val >> \o json_loads_items(r.rest)
         ELSE json_loads_items(Tail(text))     \* the ", " between items

json_loads(text) == json_loads_items(SubSeq(text, 2, Len(text) - 1))

\* text LIKE pattern in SQLite: % is any run of characters, _ any one
\* character, any other character itself up to ASCII case.
RECURSIVE Like(_, _)
Like(text, pattern) ==
    IF pattern = <<>> THEN text = <<>>
    ELSE IF Head(pattern) = "%"
         THEN \E k \in 0..Len(text) :
                  Like(SubSeq(text, k + 1, Len(text)), Tail(pattern))
         ELSE /\ text # <<>>
              /\ \/ Head(pattern) = "_"
                 \/ lower_char(Head(text)) = lower_char(Head(pattern))
              /\ Like(Tail(text), Tail(pattern))

\* The code of a character in the BINARY collation of ORDER BY.
CharCode(c) ==
    CASE c = "A" -> 65
      [] c = "B" -> 66
      [] c = "U" -> 85
      [] c = "b" -> 98
      [] c = "e" -> 101
      [] c = "n" -> 110
      [] c = "o" -> 111
      [] c = "r" -> 114
      [] c = "s" -> 115
      [] OTHER -> 0

\* a < b for strings, as ORDER BY compares them
RECURSIVE StrLess(_, _)
StrLess(a, b) ==
    IF b = <<>> THEN FALSE
    ELSE IF a = <<>> THEN TRUE
    ELSE IF CharCode(Head(a)) # CharCode(Head(b))
         THEN CharCode(Head(a)) < CharCode(Head(b))
         ELSE StrLess(Tail(a), Tail(b))

VARIABLES
    telegram_users,       \* table telegram_users, in rowid order
    scheduled_messages,   \* table scheduled_messages: row id = index
    message_logs,         \* table message_logs, in insertion order
    now,                  \* time.time()
    \* scheduler process (check_schedule_and_send)
    pc,                   \* position in the loop
    pending_messages,     \* rows of the last poll not yet iterated
    message,              \* the row being dispatched
    chat_todo,            \* ids of set(target_chat_ids) not yet iterated
    sent_count,
    \* request handler (broadcast, immediate sending)
    target_ids_input,     \* the field target_ids of the form being resolved
    req_pc,
    recipients,
    req_todo,
    req_sent_count,
    response,
    \* history
    hist

vars == << telegram_users, target_ids_input, scheduled_messages, message_logs,
           now, pc, pending_messages, message,
           chat_todo, sent_count, req_pc, recipients, req_todo, req_sent_count,
           response, hist >>

storeVars == << scheduled_messages, message_logs >>
schedVars == << pc, pending_messages, message, chat_todo, sent_count >>
reqVars == << req_pc, recipients, req_todo, req_sent_count, response >>


\* ------------------------------------------------------------------ store

\* app.py 66-72: getattr(g, '_database', None) needs an application context;
\* flask.g raises RuntimeError outside one (getattr's default covers only
\* AttributeError).
get_db(has_ctx) == IF has_ctx THEN "ok" ELSE "RuntimeError"

RECURSIVE PendingFrom(_, _, _)
PendingFrom(rows, t, i) ==
    IF i > Len(rows) THEN <<>>
    ELSE (IF rows[i].status = "PENDING" /\ rows[i].send_time <= t
          THEN << [id |-> i, target_ids |-> rows[i].target_ids] >>
          ELSE <<>>) \o PendingFrom(rows, t, i + 1)

\* The query without its condition on status.
get_pending_messages_any_status(rows, t) ==
    LET RECURSIVE From(_)
        From(i) ==
            IF i > Len(rows) THEN <<>>
            ELSE (IF rows[i].send_time <= t
                  THEN << [id |-> i, target_ids |-> rows[i].target_ids] >>
                  ELSE <<>>) \o From(i + 1)
    IN From(1)

\* The query with send_time < now.
get_pending_messages_strict(rows, t) ==
    LET RECURSIVE From(_)
        From(i) ==
            IF i > Len(rows) THEN <<>>
            ELSE (IF rows[i].status = "PENDING" /\ rows[i].send_time < t
                  THEN << [id |-> i, target_ids |-> rows[i].target_ids] >>
                  ELSE <<>>) \o From(i + 1)
    IN From(1)

\* The query handing out, for the stored recipients, the chat ids the
\* directory holds when it runs.
get_pending_messages_resolving(rows, t) ==
    LET RECURSIVE From(_)
        From(i) ==
            IF i > Len(rows) THEN <<>>
            ELSE (IF rows[i].status = "PENDING" /\ rows[i].send_time <= t
                  THEN << [id |-> i,
                           target_ids |-> [k \in 1..Len(telegram_users) |->
                                              telegram_users[k].chat_id]] >>
                  ELSE <<>>) \o From(i + 1)
    IN From(1)

\* The rows WHERE status = 'PENDING' AND send_time <= now, target_ids decoded
\* (json.loads of the json.dumps of a list of strings is that list).
get_pending_messages(rows, t) == PendingFrom(rows, t, 1)

\* The update without its WHERE clause.
update_message_status_all_rows(rows, msg_id, status) ==
    [i \in 1..Len(rows) |-> [rows[i] EXCEPT !.status = status]]

\* UPDATE scheduled_messages SET status = ? WHERE id = ?
update_message_status(rows, msg_id, status) ==
    [i \in 1..Len(rows) |->
        IF i = msg_id THEN [rows[i] EXCEPT !.status = status] ELSE rows[i]]

\* INSERT INTO scheduled_messages: the id is the next row id, status defaults
\* to 'PENDING' (app.py 48).
add_scheduled_message(rows, target, send_time) ==
    Append(rows, [target_ids |-> target, send_time |-> send_time,
                  status |-> "PENDING"])

\* INSERT INTO message_logs.  by is history: the dispatch that wrote the
\* entry (0: an immediate broadcast, n: scheduled message n); the column
\* message_id is never written.
log_message(logs, chat_id, status, error_details, t, by) ==
    Append(logs, [chat_id |-> chat_id, send_time |-> t, status |-> status,
                  error_details |-> error_details, by |-> by])

\* A call of log_message and how it ends: exc names the exception it raises.
LogCall(logs, chat_id, status, error_details, t, by, has_ctx, fault) ==
    IF get_db(has_ctx) # "ok" THEN [exc |-> get_db(has_ctx), logs |-> logs]
    ELSE IF fault THEN [exc |-> "OperationalError", logs |-> logs]
    ELSE [exc |-> "none",
          logs |-> log_message(logs, chat_id, status, error_details, t, by)]

\* ------------------------------------------------------------------ directory

\* INSERT keeping the stored row when the chat_id exists (OR IGNORE).
add_user_insert_or_ignore(users, chat_id, username, tags_list) ==
    IF \E i \in 1..Len(users) : users[i].chat_id = chat_id THEN users
    ELSE Append(users, [chat_id |-> chat_id, username |-> username,
                        tags |-> json_dumps(tags_list)])

\* INSERT INTO telegram_users ... ON CONFLICT(chat_id) DO UPDATE SET
\* username, tags (app.py 90-101); chat_id is UNIQUE (app.py 29).
add_user(users, chat_id, username, tags_list) ==
    LET row == [chat_id |-> chat_id, username |-> username,
                tags |-> json_dumps(tags_list)]
    IN IF \E i \in 1..Len(users) : users[i].chat_id = chat_id
       THEN [i \in 1..Len(users) |->
                IF users[i].chat_id = chat_id THEN row ELSE users[i]]
       ELSE Append(users, row)

\* ORDER BY username: rows with equal names stay in rowid order.
RECURSIVE OrderByUsername(_)
OrderByUsername(rows) ==
    IF rows = <<>> THEN <<>>
    ELSE LET front == OrderByUsername(SubSeq(rows, 1, Len(rows) - 1))
             row == rows[Len(rows)]
             k == Cardinality({ i \in 1..Len(front) :
                                  ~StrLess(row.username, front[i].username) })
         IN SubSeq(front, 1, k) \o << row >> \o SubSeq(front, k + 1, Len(front))

\* app.py 81-88
get_all_users(users) ==
    LET rows == OrderByUsername(users)
    IN [i \in 1..Len(rows) |-> [rows[i] EXCEPT !.tags = json_loads(@)]]

\* app.py 112-116: SELECT chat_id ... WHERE tags LIKE '%"{tag}"%'
get_users_by_tag(users, tag) ==
    LET rows == SelectSeq(users,
                    LAMBDA u : Like(u.tags, << "%", "\"" >> \o tag \o << "\"", "%" >>))
    IN [i \in 1..Len(rows) |-> rows[i].chat_id]

\* ------------------------------------------------------------------ scheduler

\* scheduler.py 70-79: the application context is left at line 71, before
\* the dispatch of line 79.
SchedulerDispatchHasContext == FALSE

\* One iteration of the loop of send_scheduled_message_async for chat_id,
\* the awaited Bot method ending as r.
scheduled_iteration(logs, chat_id, r, t, by, fault1, fault2) ==
    IF r = "Ok" THEN
        LET l1 == LogCall(logs, chat_id, "SENT", None, t, by,
                          SchedulerDispatchHasContext, fault1)
        IN IF l1.exc = "none"
           THEN [sent |-> 1, logs |-> l1.logs, exc |-> "none"]
           ELSE LET l2 == LogCall(logs, chat_id, "FAILED", ErrorText(l1.exc),
                                  t, by, SchedulerDispatchHasContext, fault2)
                IN [sent |-> 1, logs |-> l2.logs, exc |-> l2.exc]
    ELSE IF IsTelegramError(r) THEN
        LET status == IF Contains(ErrorText(r), BlockedPhrase)
                      THEN "BLOCKED" ELSE "FAILED"
            l == LogCall(logs, chat_id, status, ErrorText(r), t, by,
                         SchedulerDispatchHasContext, fault1)
        IN [sent |-> 0, logs |-> l.logs, exc |-> l.exc]
    ELSE
        LET l == LogCall(logs, chat_id, "FAILED", ErrorText(r), t, by,
                         SchedulerDispatchHasContext, fault1)
        IN [sent |-> 0, logs |-> l.logs, exc |-> l.exc]

\* scheduler.py 54-57
final_status(count, target_chat_ids) ==
    IF count > 0 \/ Len(target_chat_ids) = 0 THEN "SENT" ELSE "FAILED"

NoMessage == [id |-> 0, target_ids |-> <<>>]

MsgIds == 1..MaxMsgs

NoAttempts == [c \in ChatIds |-> 0]

NoLast == [by |-> 0, chat_id |-> "", r |-> "none"]

\* while True: with app.app_context(): pending_messages = get_pending_messages()
SchedPoll ==
    /\ pc = "poll"
    /\ \/ /\ pc' = "dead"   \* the query raises: nothing catches it
          /\ UNCHANGED pending_messages
       \/ /\ pending_messages' = get_pending_messages(scheduled_messages, now)
          /\ pc' = IF pending_messages' # <<>> THEN "for_message" ELSE "sleep"
    /\ UNCHANGED << telegram_users, target_ids_input >>
    /\ UNCHANGED << storeVars, now, message, chat_todo, sent_count, reqVars, hist >>

\* for message in pending_messages: enter send_scheduled_message_async
SchedNextMessage ==
    /\ pc = "for_message"
    /\ \/ /\ pending_messages = <<>>
          /\ pc' = "sleep"
          /\ UNCHANGED << pending_messages, message, chat_todo, sent_count, hist >>
       \/ /\ pending_messages # <<>>
          /\ message' = Head(pending_messages)
          /\ pending_messages' = Tail(pending_messages)
          /\ chat_todo' = SetOf(message'.target_ids)
          /\ sent_count' = 0
          /\ pc' = "for_chat"
          /\ hist' = [hist EXCEPT !.dispatched[message'.id] = @ + 1]
    /\ UNCHANGED << telegram_users, target_ids_input >>
    /\ UNCHANGED << storeVars, now, reqVars >>

\* for chat_id in set(target_chat_ids): one iteration, in any order
SchedSendOne ==
    /\ pc = "for_chat"
    /\ \E chat_id \in chat_todo, r \in SendResults, fault1, fault2 \in BOOLEAN :
         LET it == scheduled_iteration(message_logs, chat_id, r, now,
                                       message.id, fault1, fault2)
         IN /\ message_logs' = it.logs
            /\ sent_count' = sent_count + it.sent
            /\ chat_todo' = chat_todo \ {chat_id}
            /\ pc' = IF it.exc = "none" THEN "for_chat" ELSE "except"
            /\ hist' = [hist EXCEPT
                          !.attempts[message.id][chat_id] = @ + 1,
                          !.any_ok[message.id] = @ \/ r = "Ok",
                          !.raised[message.id] =
                              IF it.exc # "none" THEN "loop" ELSE @,
                          !.last = [by |-> message.id, chat_id |-> chat_id,
                                    r |-> r]]
    /\ UNCHANGED << telegram_users, target_ids_input >>
    /\ UNCHANGED << scheduled_messages, now, pending_messages, message, reqVars >>

\* scheduler.py 54-57: after the loop
SchedSetStatus ==
    /\ pc = "for_chat"
    /\ chat_todo = {}
    /\ \/ /\ pc' = "except"   \* update_message_status raises
          /\ hist' = [hist EXCEPT !.raised[message.id] = "status"]
          /\ UNCHANGED scheduled_messages
       \/ /\ scheduled_messages' =
                update_message_status(scheduled_messages, message.id,
                                      final_status(sent_count, message.target_ids))
          /\ pc' = "for_message"
          /\ UNCHANGED hist
    /\ UNCHANGED << telegram_users, target_ids_input >>
    /\ UNCHANGED << message_logs, now, pending_messages, message, chat_todo,
                    sent_count, reqVars >>

\* scheduler.py 80-82: except Exception
SchedExcept ==
    /\ pc = "except"
    /\ \/ /\ pc' = "dead"   \* update_message_status raises inside the handler
          /\ UNCHANGED scheduled_messages
       \/ /\ scheduled_messages' =
                update_message_status(scheduled_messages, message.id, "FAILED")
          /\ pc' = "for_message"
    /\ UNCHANGED << telegram_users, target_ids_input >>
    /\ UNCHANGED << message_logs, now, pending_messages, message, chat_todo,
                    sent_count, reqVars, hist >>

\* time.sleep(SCHEDULER_SLEEP_TIME)
SchedSleep ==
    /\ pc = "sleep"
    /\ pc' = "poll"
    /\ UNCHANGED << telegram_users, target_ids_input >>
    /\ UNCHANGED << storeVars, now, pending_messages, message, chat_todo,
                    sent_count, reqVars, hist >>

\* The service is stopped, at any point, and started again: only the
\* database file survives.
SchedRestart ==
    /\ hist.restarts < MaxRestarts
    /\ pc' = "poll"
    /\ pending_messages' = <<>>
    /\ message' = NoMessage
    /\ chat_todo' = {}
    /\ sent_count' = 0
    /\ hist' = [hist EXCEPT !.restarts = @ + 1]
    /\ UNCHANGED << telegram_users, target_ids_input >>
    /\ UNCHANGED << storeVars, now, reqVars >>

check_schedule_and_send ==
    \/ SchedPoll
    \/ SchedNextMessage
    \/ SchedSendOne
    \/ SchedSetStatus
    \/ SchedExcept
    \/ SchedSleep

\* ------------------------------------------------------------------ requests

\* request.form.get('schedule_time'): absent or empty, not of the format
\* '%Y-%m-%dT%H:%M', or a time (its timestamp).
ScheduleTimes ==
    { [kind |-> "missing", t |-> 0], [kind |-> "malformed", t |-> 0] }
        \cup { [kind |-> "valid", t |-> t] : t \in 0..MaxTime }

\* One iteration of the loop of send_messages_async (app.py 244-268); the
\* request's application context is active.
immediate_iteration(logs, chat_id, r, t, by, fault1, fault2) ==
    IF r = "Ok" THEN
        LET l1 == LogCall(logs, chat_id, "SENT", None, t, by, TRUE, fault1)
        IN IF l1.exc = "none"
           THEN [sent |-> 1, logs |-> l1.logs, exc |-> "none"]
           ELSE LET l2 == LogCall(logs, chat_id, "FAILED", ErrorText(l1.exc),
                                  t, by, TRUE, fault2)
                IN [sent |-> 1, logs |-> l2.logs, exc |-> l2.exc]
    ELSE IF IsTelegramError(r) THEN
        LET status == IF Contains(ErrorText(r), BlockedPhrase)
                      THEN "BLOCKED" ELSE "FAILED"
            l == LogCall(logs, chat_id, status, ErrorText(r), t, by, TRUE, fault1)
        IN [sent |-> 0, logs |-> l.logs, exc |-> l.exc]
    ELSE
        LET l == LogCall(logs, chat_id, "FAILED", ErrorText(r), t, by, TRUE, fault1)
        IN [sent |-> 0, logs |-> l.logs, exc |-> l.exc]

\* app.py 203-213: the recipients of a broadcast form.
Recipients(users, form) ==
    IF form.target_type = "all"
    THEN [i \in 1..Len(users) |-> get_all_users(users)[i].chat_id]
    ELSE IF form.target_type = "tag"
    THEN get_users_by_tag(users, form.selected_tag)
    ELSE IF form.target_type = "multiple" /\ strip(form.target_ids) # <<>>
    THEN ids_list(strip(form.target_ids))
    ELSE <<>>

\* app.py 284-287: the fields of an add-user form as add_user gets them.
NewUser(form) ==
    [new_id |-> Str(strip(form.new_chat_id)),
     new_username |-> IF strip(form.new_username) # <<>>
                      THEN strip(form.new_username)
                      ELSE << "U", "s", "e", "r" >>,
     new_tags_list |-> new_tags_list(strip(form.new_tags))]

\* POST / with add_id: app.py 283-294 for one form.
AddUserForm(form) ==
    /\ req_pc = "idle"
    /\ LET u == NewUser(form)
       IN \/ /\ u.new_id # ""
             /\ telegram_users' =
                  add_user(telegram_users, u.new_id, u.new_username,
                           u.new_tags_list)
             /\ response' = "user_added"
          \/ /\ u.new_id # ""          \* the insert raises: add_user returns False
             /\ response' = "user_error"
             /\ UNCHANGED telegram_users
          \/ /\ u.new_id = ""
             /\ response' = "none"
             /\ UNCHANGED telegram_users
    /\ hist' = [hist EXCEPT
                  !.overwrote =
                      \/ @
                      \/ /\ telegram_users' # telegram_users
                         /\ Len(telegram_users') = Len(telegram_users)]
    /\ UNCHANGED << target_ids_input, storeVars, now, schedVars, req_pc,
                    recipients, req_todo, req_sent_count >>

AddUser == \E form \in UserForms : AddUserForm(form)

\* POST / with message_text, send_type 'scheduled' and a schedule time:
\* app.py 195-235.
BroadcastScheduled ==
    /\ req_pc = "idle"
    /\ \E form \in TargetForms, st \in ScheduleTimes :
         /\ st.kind # "missing"
         /\ LET target == Recipients(telegram_users, form) IN
            \/ /\ st.kind = "malformed"      \* strptime raises ValueError
               /\ response' = "invalid_time"
               /\ UNCHANGED << scheduled_messages, hist >>
            \/ /\ st.kind = "valid"          \* the insert raises
               /\ response' = "schedule_failed"
               /\ UNCHANGED << scheduled_messages, hist >>
            \/ /\ st.kind = "valid"
               /\ Len(scheduled_messages) < MaxMsgs
               /\ scheduled_messages' =
                    add_scheduled_message(scheduled_messages, target, st.t)
               /\ response' = "scheduled"
               /\ hist' = [hist EXCEPT
                             !.enq_mid[Len(scheduled_messages')] =
                                 pc \in {"for_message", "for_chat", "except"}]
    /\ UNCHANGED << telegram_users, target_ids_input >>
    /\ UNCHANGED << message_logs, now, schedVars, req_pc, recipients, req_todo,
                    req_sent_count >>

\* POST / with message_text and target_type 'multiple': app.py 195-213, the
\* recipients of the request's field target_ids.
ResolveExplicit ==
    /\ req_pc = "idle"
    /\ recipients' = Recipients(telegram_users,
                                [target_type |-> "multiple",
                                 selected_tag |-> <<>>,
                                 target_ids |-> target_ids_input])
    /\ req_pc' = "resolved"
    /\ UNCHANGED << telegram_users, target_ids_input >>
    /\ UNCHANGED << storeVars, now, schedVars,
                    req_todo, req_sent_count, response, hist >>

\* The field send_type of a broadcast form that reaches the else of line
\* 238: a type other than 'scheduled' (whatever the schedule time), or
\* 'scheduled' with the schedule time absent or empty.
ImmediateSendTypes == {"now", "scheduled"}

\* POST / with message_text otherwise (send_type not 'scheduled', or no
\* schedule time): app.py 195-213 and 238-280, up to the first iteration.
BroadcastImmediate ==
    /\ req_pc = "idle"
    /\ hist.broadcasts < MaxBroadcasts
    /\ \E form \in TargetForms, send_type \in ImmediateSendTypes :
         LET target == Recipients(telegram_users, form) IN
         /\ recipients' = target
         /\ req_sent_count' = 0
         /\ req_todo' = SetOf(target)
         /\ \/ /\ target = <<>>
               /\ response' = "no_recipients"
               /\ req_pc' = "idle"
            \/ /\ target # <<>>
               /\ response' = "sending"
               /\ req_pc' = "for_chat"
         /\ hist' = [hist EXCEPT !.broadcasts = @ + 1,
                                 !.send_type = send_type,
                                 !.imm_attempts = NoAttempts,
                                 !.imm_ok = {},
                                 !.imm_log_start = Len(message_logs)]
    /\ UNCHANGED << telegram_users, target_ids_input >>
    /\ UNCHANGED << storeVars, now, schedVars >>

\* for chat_id in set(recipients): one iteration, in any order; after the
\* last one the handler answers with the count.  An exception leaving
\* send_messages_async is no RuntimeError (it is sqlite3's), so line 273 does
\* not catch it and the request fails.
BroadcastSendOne ==
    /\ req_pc = "for_chat"
    /\ \E chat_id \in req_todo, r \in SendResults, fault1, fault2 \in BOOLEAN :
         LET it == immediate_iteration(message_logs, chat_id, r, now, 0,
                                       fault1, fault2)
         IN /\ message_logs' = it.logs
            /\ req_sent_count' = req_sent_count + it.sent
            /\ req_todo' = req_todo \ {chat_id}
            /\ req_pc' = IF it.exc = "none" /\ req_todo' # {}
                         THEN "for_chat" ELSE "idle"
            /\ response' = IF it.exc # "none" THEN "server_error"
                           ELSE IF req_todo' = {} THEN "sent" ELSE "sending"
            /\ hist' = [hist EXCEPT
                          !.imm_attempts[chat_id] = @ + 1,
                          !.imm_ok = IF r = "Ok" THEN @ \cup {chat_id} ELSE @,
                          !.last = [by |-> 0, chat_id |-> chat_id, r |-> r]]
    /\ UNCHANGED << telegram_users, target_ids_input >>
    /\ UNCHANGED << scheduled_messages, now, schedVars, recipients >>

\* app.py 301: the count the page shows as scheduled messages, in the
\* current state.
scheduled_count == Len(get_pending_messages(scheduled_messages, now))

broadcast ==
    \/ BroadcastScheduled
    \/ ResolveExplicit
    \/ BroadcastImmediate
    \/ BroadcastSendOne
    \/ AddUser

\* ------------------------------------------------------------------ system

Tick ==
    /\ now < MaxTime
    /\ now' = now + 1
    /\ UNCHANGED << telegram_users, target_ids_input >>
    /\ UNCHANGED << storeVars, schedVars, reqVars, hist >>

\* The state after init_db and the start of both processes, no request
\* being served.
InitProgram ==
    /\ telegram_users = <<>>
    /\ scheduled_messages = <<>>
    /\ message_logs = <<>>
    /\ now = 0
    /\ pc = "poll"
    /\ pending_messages = <<>>
    /\ message = NoMessage
    /\ chat_todo = {}
    /\ sent_count = 0
    /\ req_pc = "idle"
    /\ recipients = <<>>
    /\ req_todo = {}
    /\ req_sent_count = 0
    /\ response = "none"
    /\ hist = [attempts |-> [m \in MsgIds |-> NoAttempts],
               any_ok |-> [m \in MsgIds |-> FALSE],
               dispatched |-> [m \in MsgIds |-> 0],
               raised |-> [m \in MsgIds |-> "no"],
               enq_mid |-> [m \in MsgIds |-> FALSE],
               last |-> NoLast,
               restarts |-> 0, broadcasts |-> 0,
               imm_attempts |-> NoAttempts, imm_ok |-> {},
               imm_log_start |-> 0,
               overwrote |-> FALSE,
               send_type |-> "none"]

Init ==
    /\ InitProgram
    /\ target_ids_input = <<>>

\* Every step of the two processes.
Program ==
    \/ check_schedule_and_send
    \/ SchedRestart
    \/ broadcast
    \/ Tick

\* The scheduled path: requests that schedule, the scheduler service, the
\* clock.  An immediate broadcast writes message_logs and the request's own
\* variables only, and nothing on this path reads them.  No user is added:
\* the recipients are those of the field target_ids.

Next ==
    \/ SchedPoll
    \/ SchedNextMessage
    \/ SchedSendOne
    \/ SchedSetStatus
    \/ SchedExcept
    \/ SchedSleep
    \/ SchedRestart
    \/ BroadcastScheduled
    \/ Tick

Spec == Init /\ [][Next]_vars

\* The application alone: requests that add a user, requests that send at
\* once, the clock.
NextImmediate ==
    \/ AddUser
    \/ BroadcastImmediate
    \/ BroadcastSendOne
    \/ Tick

SpecImmediate == Init /\ [][NextImmediate]_vars

\* The resolution of the typed ids alone: a request with target_type
\* 'multiple' and any field target_ids, up to line 213.
InitExplicit ==
    /\ InitProgram
    /\ target_ids_input \in TargetIdsInputs

NextExplicit == ResolveExplicit

SpecExplicit == InitExplicit /\ [][NextExplicit]_vars

\* The scheduled path with the scheduler service scheduled: the service is
\* a process of its own whose loop never waits but in time.sleep
\* (scheduler.py 87), so a step of it that can be taken is eventually taken.
SpecFair == Init /\ [][Next]_vars /\ WF_vars(check_schedule_and_send)

\* Scheduling over a changing directory: requests that add a user, requests
\* that schedule, the scheduler service.
NextSnapshot ==
    \/ AddUser
    \/ BroadcastScheduled
    \/ SchedPoll
    \/ SchedNextMessage
    \/ SchedSendOne
    \/ SchedSetStatus
    \/ SchedExcept
    \/ SchedSleep

SpecSnapshot == Init /\ [][NextSnapshot]_vars


\* ------------------------------------------------------------------ properties

Stored == 1..Len(scheduled_messages)

Status(m) == scheduled_messages[m].status

Terminal == {"SENT", "FAILED"}

Due(m) == scheduled_messages[m].send_time <= now

IdsOf(rows) == { rows[i].id : i \in 1..Len(rows) }

\* Log entries written by dispatch by for chat_id.
LogsBy(by, chat_id) ==
    Cardinality({ i \in 1..Len(message_logs) :
                    /\ message_logs[i].by = by
                    /\ message_logs[i].chat_id = chat_id })

\* The outcome the log is to carry for a sender result.
Outcome(r) ==
    CASE r = "Ok" -> "SENT"
      [] r = "Blocked" -> "BLOCKED"
      [] OTHER -> "FAILED"

\* The scheduler is past the dispatch of m (and past its exception handler).
DispatchOver(m) ==
    /\ hist.dispatched[m] >= 1
    /\ ~(pc \in {"for_chat", "except"} /\ message.id = m)

\* C1: a stored status changes only from PENDING to SENT or from PENDING to
\* FAILED; no row is dropped, no step rewrites a terminal status, and no
\* message returns to PENDING.
C1_StatusOneWay ==
    [][ /\ Len(scheduled_messages') >= Len(scheduled_messages)
        /\ \A m \in Stored :
             scheduled_messages'[m].status # Status(m)
                => /\ Status(m) = "PENDING"
                   /\ scheduled_messages'[m].status \in Terminal ]_vars

\* C1's case: a message is SENT, and the exception handler has since run
\* for a later message and marked that one FAILED.
C1_Witness ==
    \E m1, m2 \in Stored :
        /\ m1 < m2
        /\ Status(m1) = "SENT"
        /\ hist.raised[m2] # "no"
        /\ Status(m2) = "FAILED"

\* C2: a poll that returns selects exactly the messages that are PENDING
\* with send_time <= now, each once; and whatever is selected or being
\* dispatched is stored, due, and still PENDING: a SENT or FAILED message is
\* never selected or dispatched again.
C2_PollSelectsExactlyDue ==
    /\ [][ (pc = "poll" /\ pc' \in {"for_message", "sleep"})
             => /\ IdsOf(pending_messages')
                     = { m \in Stored : Status(m) = "PENDING" /\ Due(m) }
                /\ Len(pending_messages')
                     = Cardinality(IdsOf(pending_messages')) ]_vars
    /\ [](/\ \A i \in 1..Len(pending_messages) :
               /\ pending_messages[i].id \in Stored
               /\ Status(pending_messages[i].id) = "PENDING"
               /\ Due(pending_messages[i].id)
          /\ pc \in {"for_chat", "except"}
               => /\ message.id \in Stored
                  /\ Status(message.id) = "PENDING"
                  /\ Due(message.id))

\* C2's case: with one message terminal and due, a later poll has selected
\* only the other one, which was added during the cycle that finished the
\* first.
C2_Witness ==
    \E m1, m2 \in Stored :
        /\ hist.restarts = 0
        /\ Status(m1) \in Terminal
        /\ Due(m1)
        /\ hist.enq_mid[m2]
        /\ pc = "for_chat"
        /\ message.id = m2
        /\ pending_messages = <<>>

\* C3: each recipient of a scheduled message gets at most one delivery
\* attempt for it, restarts of the service included.
C3_AtMostOneAttempt ==
    \A m \in MsgIds : \A c \in ChatIds : hist.attempts[m][c] <= 1

\* C4: while the one scheduler instance runs (no restart), every stored
\* message is handed to the dispatcher at most once, none reaches a terminal
\* status without having been handed over, and a poll that returns selects
\* every due PENDING message that was added while a cycle was in progress.
C4_OnceAndNotLost ==
    /\ [](hist.restarts = 0
            => \A m \in Stored :
                 /\ hist.dispatched[m] <= 1
                 /\ Status(m) # "PENDING" => hist.dispatched[m] = 1)
    /\ [][ (hist.restarts' = 0 /\ pc = "poll" /\ pc' \in {"for_message", "sleep"})
             => \A m \in Stored :
                  (hist.enq_mid[m] /\ Status(m) = "PENDING" /\ Due(m))
                     => m \in IdsOf(pending_messages') ]_vars

\* C4's case: a message added while a cycle was in progress has been
\* dispatched, once, by a later cycle.
C4_Witness ==
    \E m \in Stored :
        /\ hist.restarts = 0
        /\ hist.enq_mid[m]
        /\ hist.dispatched[m] = 1
        /\ Status(m) \in Terminal


\* C5: in every dispatch call, scheduled or immediate, each distinct
\* recipient id gets exactly one delivery attempt and exactly one log entry
\* (stated for the calls of a service that was not restarted).
C5_OneAttemptOneLogEntry ==
    /\ \A m \in Stored :
         (hist.restarts = 0 /\ Status(m) \in Terminal)
            => \A c \in SetOf(scheduled_messages[m].target_ids) :
                 /\ hist.attempts[m][c] = 1
                 /\ LogsBy(m, c) = 1
    /\ (hist.broadcasts > 0 /\ req_pc = "idle")
          => \A c \in SetOf(recipients) :
               /\ hist.imm_attempts[c] = 1
               /\ Cardinality({ i \in (hist.imm_log_start + 1)..Len(message_logs) :
                                  /\ message_logs[i].by = 0
                                  /\ message_logs[i].chat_id = c }) = 1

\* C6: in every dispatch call a failed delivery keeps no other recipient
\* from its attempt: once the call is over every distinct recipient has been
\* attempted, no exception has left the loop over the recipients, and the
\* count is the number of recipients the sender succeeded for (stated for
\* the calls of a service that was not restarted).
C6_FailureIsolated ==
    /\ \A m \in Stored :
         (hist.restarts = 0 /\ Status(m) \in Terminal)
            => /\ \A c \in SetOf(scheduled_messages[m].target_ids) :
                    hist.attempts[m][c] >= 1
               /\ hist.raised[m] # "loop"
    /\ (hist.broadcasts > 0 /\ req_pc = "idle")
          => /\ \A c \in SetOf(recipients) : hist.imm_attempts[c] >= 1
             /\ response # "server_error"
             /\ req_sent_count = Cardinality(hist.imm_ok)

\* C7: once the scheduler has processed a message, its status is SENT if its
\* snapshot is empty or the sender succeeded for some recipient, and FAILED
\* otherwise (stated for the messages whose status write did not fail).
C7_FinalStatusRule ==
    \A m \in Stored :
        (Status(m) \in Terminal /\ hist.raised[m] # "status")
           => Status(m) =
                 IF scheduled_messages[m].target_ids = <<>> \/ hist.any_ok[m]
                 THEN "SENT" ELSE "FAILED"

\* C8: every delivery attempt is logged with the outcome its sender result
\* determines (SENT, BLOCKED for a blocked recipient, FAILED with a detail
\* otherwise), and a scheduled message none of whose attempts succeeded ends
\* FAILED.
C8_OutcomeLogged ==
    /\ hist.last.r # "none"
          => /\ Len(message_logs) > 0
             /\ LET e == message_logs[Len(message_logs)]
                IN /\ e.chat_id = hist.last.chat_id
                   /\ e.by = hist.last.by
                   /\ e.status = Outcome(hist.last.r)
                   /\ e.status = "FAILED" => e.error_details # None
    /\ \A m \in Stored :
         (Status(m) \in Terminal /\ ~hist.any_ok[m]
            /\ scheduled_messages[m].target_ids # <<>>)
            => Status(m) = "FAILED"

\* C9: a message whose dispatch raised is FAILED once the handler is past
\* it, and the cycle ends only with every selected message iterated (stated
\* for a service that was not restarted).
C9_RaiseMarksFailedAndContinues ==
    hist.restarts = 0
       => /\ \A m \in Stored :
               (hist.raised[m] # "no" /\ DispatchOver(m)) => Status(m) = "FAILED"
          /\ (\E m \in Stored : hist.raised[m] # "no")
                /\ pc \in {"sleep", "poll", "dead"}
               => pending_messages = <<>>

\* C10: no error ends the scheduler loop.
C10_LoopNeverEnds ==
    pc # "dead"

\* C11: while the scheduler loop keeps running (its steps are taken, no
\* exception ends it) and every sender call returns, every stored message
\* that is PENDING with send_time <= now eventually is SENT or FAILED.
C11_DueEventuallyTerminal ==
    ([](pc # "dead"))
       => \A m \in MsgIds :
            (m \in Stored /\ Status(m) = "PENDING" /\ Due(m))
               ~> (m \in Stored /\ Status(m) \in Terminal)

\* C11's case: a message scheduled for a later time became due with the
\* clock, was dispatched after the service had been restarted, and is
\* terminal, the loop being asleep until its next poll.
C11_Witness ==
    \E m \in Stored :
        /\ scheduled_messages[m].send_time = MaxTime
        /\ now = MaxTime
        /\ hist.restarts = MaxRestarts
        /\ hist.dispatched[m] >= 1
        /\ Status(m) \in Terminal
        /\ pc = "sleep"

InputErrors == {"invalid_time", "no_recipients"}

\* C13: a broadcast request of send type 'scheduled' whose schedule time is
\* malformed or missing is answered with an input error and does nothing
\* else: it stores no message, attempts no delivery and writes no log entry.
C13_BadScheduleTimeIsInputError ==
    /\ [][ (BroadcastScheduled /\ response' = "invalid_time")
             => UNCHANGED << scheduled_messages, message_logs, hist >> ]_vars
    /\ [][ (hist'.broadcasts = hist.broadcasts + 1
               /\ hist'.send_type = "scheduled")
             => /\ response' \in InputErrors
                /\ UNCHANGED scheduled_messages ]_vars
    /\ [](hist.send_type = "scheduled"
            => /\ hist.imm_attempts = NoAttempts
               /\ Len(message_logs) = hist.imm_log_start)

\* C14: a broadcast request whose recipients resolve to none is answered
\* with an input error, when it schedules as well as when it sends at once,
\* and writes no log entry: no message is stored with an empty recipient
\* list, and a request to send at once to nobody is answered with the error
\* and leaves the log as it is.
C14_EmptyRecipientsIsInputError ==
    /\ [][ Len(scheduled_messages') = Len(scheduled_messages) + 1
             => /\ response' = "scheduled"
                /\ scheduled_messages'[Len(scheduled_messages')].target_ids
                      # <<>> ]_vars
    /\ [][ (hist'.broadcasts = hist.broadcasts + 1 /\ recipients' = <<>>)
             => /\ response' = "no_recipients"
                /\ message_logs' = message_logs ]_vars

\* The row of chat_id, if stored.
UserRows(users, chat_id) ==
    { i \in 1..Len(users) : users[i].chat_id = chat_id }

\* C15: the directory holds at most one row per chat id; a request that
\* upserts a user leaves exactly one row for that id, with the name and the
\* tags of the request, and every other row as it was; repeating the upsert
\* changes nothing.
C15_UpsertKeepsOneRowPerId ==
    /\ [](\A i, j \in 1..Len(telegram_users) :
             telegram_users[i].chat_id = telegram_users[j].chat_id => i = j)
    /\ [][ \A form \in UserForms :
             (AddUserForm(form) /\ response' = "user_added")
                => LET u == NewUser(form)
                   IN /\ Cardinality(UserRows(telegram_users', u.new_id)) = 1
                      /\ \A i \in UserRows(telegram_users', u.new_id) :
                           /\ telegram_users'[i].username = u.new_username
                           /\ json_loads(telegram_users'[i].tags)
                                 = u.new_tags_list
                      /\ \A i \in 1..Len(telegram_users) :
                           telegram_users[i].chat_id # u.new_id
                              => telegram_users'[i] = telegram_users[i]
                      /\ Len(telegram_users')
                            = Len(telegram_users)
                                 + (IF UserRows(telegram_users, u.new_id) = {}
                                    THEN 1 ELSE 0)
                      /\ add_user(telegram_users', u.new_id, u.new_username,
                                  u.new_tags_list) = telegram_users' ]_vars

\* C15's case: two users are stored, "B" first, and a later upsert has
\* replaced the name and the tags of a stored row.
C15_Witness ==
    /\ Len(telegram_users) = 2
    /\ telegram_users[1].chat_id = "B"
    /\ telegram_users[1].username = << "U", "s", "e", "r" >>
    /\ hist.overwrote
    /\ response = "user_added"

\* The chat ids of the users whose stored tags, decoded, contain the tag
\* in lower case.
TaggedIds(users, tag) ==
    { users[i].chat_id :
        i \in { k \in 1..Len(users) :
                  \E n \in 1..Len(json_loads(users[k].tags)) :
                      json_loads(users[k].tags)[n] = lower(tag) } }

\* C16: whatever the directory holds, for every tag get_users_by_tag returns
\* exactly the chat ids of the users whose stored tags contain it, letter
\* case ignored: none without the tag, none with it left out.
C16_ByTagExact ==
    \A tag \in SelectedTags :
        SetOf(get_users_by_tag(telegram_users, tag))
            = TaggedIds(telegram_users, tag)

\* The pieces of text between the characters of seps, the empty ones
\* included.
RECURSIVE PiecesBetween(_, _)
PiecesBetween(text, seps) ==
    IF \A i \in 1..Len(text) : text[i] \notin seps THEN << text >>
    ELSE LET i == CHOOSE k \in 1..Len(text) :
                      /\ text[k] \in seps
                      /\ \A j \in 1..(k - 1) : text[j] \notin seps
         IN << SubSeq(text, 1, i - 1) >>
               \o PiecesBetween(SubSeq(text, i + 1, Len(text)), seps)

\* The ids of a field: split at every comma and at every newline, each
\* piece trimmed, the empty ones dropped, repeats kept.
ExpectedIds(text) ==
    LET pieces == StrippedNonBlank(PiecesBetween(text, {",", "\n"}))
    IN [i \in 1..Len(pieces) |-> Str(pieces[i])]

\* C17: the typed ids of a request are its field target_ids split at every
\* comma and at every newline, each piece trimmed, empty pieces dropped and
\* repeats kept; ids separated by a newline alone are separate ids.
C17_ExplicitSplitsAtCommaAndNewline ==
    req_pc = "resolved" => recipients = ExpectedIds(target_ids_input)

\* C18: the pending count shown to the admin is the number of stored
\* messages whose status is PENDING, whatever their send_time.
C18_PendingCountCountsAllPending ==
    scheduled_count = Cardinality({ m \in Stored : Status(m) = "PENDING" })

\* The log entries of the current immediate broadcast.
ImmediateEntries ==
    { i \in (hist.imm_log_start + 1)..Len(message_logs) :
        message_logs[i].by = 0 }

\* C19: in a dispatch the log entry of a recipient says SENT exactly when
\* the sender call for that recipient succeeded, also when a write to the log
\* fails, and so the count of the dispatch is the number of its SENT
\* entries (stated for the immediate dispatch, whose count is reported).
C19_SentEntriesMatchSends ==
    hist.broadcasts > 0
       => /\ \A i \in ImmediateEntries :
               message_logs[i].status = "SENT"
                  <=> message_logs[i].chat_id \in hist.imm_ok
          /\ req_sent_count
                = Cardinality({ i \in ImmediateEntries :
                                  message_logs[i].status = "SENT" })

====
